---- MODULE Spec2Model ----
(***************************************************************************)
(* The load tester's runner (internal/runner/runner.go): one dispatcher    *)
(* goroutine paces ticks over an unbuffered channel to a growing pool of   *)
(* worker goroutines; every tick becomes one request and one Result on the *)
(* unbuffered results channel; Stop closes a one-shot stop channel.        *)
(*                                                                         *)
(* Time is elapsed nanoseconds since lt.began.  pace computes in the       *)
(* program's 64-bit integers (uint64 and int64, wrapping around), kept as  *)
(* digit sequences; the times of a run stay below a few seconds and are    *)
(* plain integers.                                                         *)
(***************************************************************************)
EXTENDS Integers, Sequences, FiniteSets, TLC

\* ---------------------------------------------------------------- constants

\* time.Second, in nanoseconds.
Second == 1000000000

\* ------------------------------------------------------------------ bounds

\* Largest args.MaxWorkers tried.
MaxPool == 2

\* args.Workers tried (with MaxPool raised, autoscaling grows the pool past these).
WorkersSet == {0, 1, 2}

\* Ticks handed off in a run of unbounded duration before the run is cut.
MaxTicks == 2

\* The clock is delayed (beyond the pacing sleeps) at most this many quanta.
MaxQuanta == 3

\* One scheduling delay: half a second.
Quantum == Second \div 2

\* A time from one statement of the dispatcher to its next reading of the
\* clock: a tenth of a millisecond.
Jitter == 100000

\* The times tried from one statement of the dispatcher to its next reading of
\* the clock, each pass its own: the shortest there is and a longer one (longer
\* ones still are the quanta of Advance).
Jitters == {1, Jitter}

\* No sleep of a run ends later than this.
Horizon == 2 * Second

\* args.Qps tried: one that divides a second and one that does not.
QpsSet == {2, 3}

\* args.Duration tried: forever, and one second.
DurationSet == {0, Second}

\* Goroutines outside the runner that call Stop (each calls it once); "d" is the
\* dispatcher's own deferred call.
Externals == {"e1"}

\* The external callers of the runs that look at Stop alone.
ExternalsStop == {"e1", "e2"}

\* Their request counts go up to MaxSmallRequests, and lie around the overflow
\* guard's limit.
MaxSmallRequests == 4

\* Signals (SIGINT, SIGTERM) sent to the process in one run.
MaxSignals == 2

Max(a, b) == IF a >= b THEN a ELSE b

Min(a, b) == IF a <= b THEN a ELSE b

VARIABLES
    args,          \* LoadTestArgs: Duration, Qps, Workers, MaxWorkers, AutoScale
    target,        \* what a request to r.target (with args.Method) can come to
    now,           \* time.Since(lt.began)
    dpc,           \* where the dispatcher goroutine is
    workers,       \* StartTest's local workers: workers spawned so far
    count,         \* StartTest's local count: ticks handed off
    wait,          \* StartTest's local wait, while the dispatcher sleeps (else 0)
    exitWhy,       \* which return, or a panic, left the dispatcher loop
    wpc,           \* where each worker goroutine is (a sequence, one per worker)
    wres,          \* each worker's Result under construction
    wg,            \* the sync.WaitGroup counter
    seq,           \* lt.seq
    seqmu,         \* lt.seqmu: 0 when free, else the worker holding it
    ticksCloses,   \* close(ticks) calls so far
    resultsCloses, \* close(results) calls so far
    stopCloses,    \* close(r.stopch) calls so far
    stopOnce,      \* r.stopOnce has run its function
    panicked,      \* a panic ended the process (a double close, a division by zero in Run)
    spc,           \* where each Stop call is
    sret,          \* what each Stop call returned
    received,      \* the Results the consumer has received, in order
    cdone,         \* the consumer has seen the results channel closed
    rpc,           \* where Run is ("none": the consumer is a plain range loop)
    sigq,          \* signals waiting in Run's sig channel (its buffer holds one)
    sigs,          \* signals sent to the process so far
    taken,         \* signals Run has received from sig
    late,          \* history: some loop iteration began at or after its tick's scheduled time
    waited,        \* history: the dispatcher came to a handoff with no worker ready
    paced          \* a call of pace on its own: its arguments and what it returned

vars == <<args, target, now, dpc, workers, count, wait, exitWhy, wpc, wres, wg, seq, seqmu,
          ticksCloses, resultsCloses, stopCloses, stopOnce, panicked, spc, sret,
          received, cdone, rpc, sigq, sigs, taken, late, waited, paced>>

confVars == <<args, target>>
dispVars == <<dpc, workers, count, exitWhy>>
workerVars == <<wpc, wres, wg, seq, seqmu>>
chanVars == <<ticksCloses, resultsCloses>>
stopVars == <<stopCloses, stopOnce, spc, sret>>
sigVars == <<sigq, sigs, taken>>
sinkVars == <<received, cdone, rpc, sigVars>>
histVars == <<late, waited, paced>>

\* ------------------------------------------------------- 64-bit arithmetic

\* A 64-bit quantity of the program is kept as a natural number of any size:
\* the sequence of its base-1000 digits, most significant first, without
\* leading zeros (<<>> is 0, <<1, 0>> is 1000, <<9, 223, 372>> is 9223372).
Base == 10 * 100

\* Op applied to the values of its arguments, each worked out once.
Value1(Op(_), u) == CHOOSE r \in {Op(x) : x \in {u}} : TRUE

Value2(Op(_, _), u, v) == CHOOSE r \in {Op(x, y) : x \in {u}, y \in {v}} : TRUE

RECURSIVE WideOf(_)
WideOf(n) == IF n = 0 THEN <<>> ELSE WideOf(n \div Base) \o <<n % Base>>

\* The digits of a natural number.
Wide(n) == Value1(WideOf, n)

\* The number of the k leading digits of a (k <= 3, or 4 below 2^31).
RECURSIVE Leading(_, _)
Leading(a, k) == IF k = 0 THEN 0 ELSE Leading(a, k - 1) * Base + a[k]

NarrowOf(a) == Leading(a, Len(a))

\* The number of (few) digits.
Narrow(a) == Value1(NarrowOf, a)

\* The numbers up to MaxNarrow have at most four digits, the first of four
\* a 1; sums, differences, products and quotients of such numbers that are
\* themselves at most MaxNarrow are worked out as plain integers.
MaxNarrow == 2 * Base * Base * Base - 1

Fits(a) == Len(a) <= 3 \/ (Len(a) = 4 /\ a[1] = 1)

\* The i-th digit counted from the least significant one.
Digit(a, i) == IF i <= Len(a) THEN a[Len(a) + 1 - i] ELSE 0

TrimOf(a) ==
    IF \A i \in 1..Len(a) : a[i] = 0 THEN <<>>
    ELSE SubSeq(a, CHOOSE i \in 1..Len(a) : a[i] # 0 /\ \A j \in 1..(i - 1) : a[j] = 0, Len(a))

\* a without its leading zeros.
Trim(a) == Value1(TrimOf, a)

LessOf(a, b) ==
    \/ Len(a) < Len(b)
    \/ /\ Len(a) = Len(b)
       /\ \E i \in 1..Len(a) : a[i] < b[i] /\ \A j \in 1..(i - 1) : a[j] = b[j]

\* a < b
Less(a, b) == Value2(LessOf, a, b)

\* The carry into the i-th digit of a + b: some lower digit overflows, and
\* every digit between that one and the i-th passes a carry on.
Carry(a, b, i) ==
    \E j \in 1..(i - 1) :
        /\ Digit(a, j) + Digit(b, j) >= Base
        /\ \A k \in (j + 1)..(i - 1) : Digit(a, k) + Digit(b, k) = Base - 1

PlusDigit(a, b, i) == (Digit(a, i) + Digit(b, i) + IF Carry(a, b, i) THEN 1 ELSE 0) % Base

PlusOf(a, b) ==
    IF Fits(a) /\ Fits(b) /\ NarrowOf(a) <= MaxNarrow - NarrowOf(b)
    THEN Wide(NarrowOf(a) + NarrowOf(b))
    ELSE
    Trim([i \in 1..(Max(Len(a), Len(b)) + 1) |->
             PlusDigit(a, b, Max(Len(a), Len(b)) + 2 - i)])

\* a + b
Plus(a, b) == Value2(PlusOf, a, b)

\* The borrow from the i-th digit of a - b.
Borrow(a, b, i) ==
    \E j \in 1..(i - 1) :
        /\ Digit(a, j) < Digit(b, j)
        /\ \A k \in (j + 1)..(i - 1) : Digit(a, k) = Digit(b, k)

MinusDigit(a, b, i) ==
    (Digit(a, i) - Digit(b, i) - (IF Borrow(a, b, i) THEN 1 ELSE 0) + Base) % Base

MinusOf(a, b) ==
    IF Fits(a)
    THEN Wide(NarrowOf(a) - NarrowOf(b))
    ELSE Trim([i \in 1..Len(a) |-> MinusDigit(a, b, Len(a) + 1 - i)])

\* a - b, for a >= b
Minus(a, b) == Value2(MinusOf, a, b)

\* a times the digit m: the low parts of the digits' products, and their high
\* parts one place up.
TimesDigitOf(a, m) ==
    Plus(Trim([i \in 1..Len(a) |-> (a[i] * m) % Base]),
         Trim([i \in 1..(Len(a) + 1) |-> IF i > Len(a) THEN 0 ELSE (a[i] * m) \div Base]))

TimesDigit(a, m) == Value2(TimesDigitOf, a, m)

RECURSIVE TimesFrom(_, _, _)
TimesFrom(a, b, j) ==
    IF j > Len(b) THEN <<>>
    ELSE Plus(TimesDigit(a, Digit(b, j)), Trim(TimesFrom(a, b, j + 1) \o <<0>>))

TimesOf(a, b) ==
    IF a = <<>> \/ b = <<>>
    THEN <<>>
    ELSE IF Fits(a) /\ Fits(b) /\ NarrowOf(a) <= MaxNarrow \div NarrowOf(b)
    THEN Wide(NarrowOf(a) * NarrowOf(b))
    ELSE TimesFrom(a, b, 1)

\* a * b
Times(a, b) == Value2(TimesOf, a, b)

\* The largest digit d <= guess with b * d <= r, for r >= b.
RECURSIVE Lower(_, _, _)
Lower(r, b, guess) ==
    IF Less(r, TimesDigit(b, guess)) THEN Lower(r, b, guess - 1) ELSE guess

\* The largest digit d with b * d <= r, for b <= r < b * Base: the exact
\* quotient by a one-digit b, or else found downwards from the quotient of
\* the leading digits of r by the two leading digits of b, which is not
\* below it.
QuotDigit(r, b) ==
    IF Len(b) = 1 THEN NarrowOf(r) \div b[1]
    ELSE Lower(r, b, (Leading(r, Len(r) - Len(b) + 2) + 1) \div Leading(b, 2))

\* One step of the long division of a number by b: the digit d of the
\* quotient that the remainder r so far gives, and the remainder it leaves.
DivDigit(r, b) ==
    IF LessOf(r, b) THEN [d |-> 0, r |-> r]
    ELSE Value1(LAMBDA d : [d |-> d, r |-> Minus(r, TimesDigit(b, d))], QuotDigit(r, b))

\* Long division, one digit of a at a time: q holds the digits of the
\* quotient so far and r the remainder so far.
RECURSIVE DivFrom(_, _, _, _, _)
DivFrom(a, b, i, q, r) ==
    IF i > Len(a) THEN [q |-> Trim(q), r |-> r]
    ELSE Value1(LAMBDA s : DivFrom(a, b, i + 1, q \o <<s.d>>, s.r),
                Value1(LAMBDA x : DivDigit(x, b), Trim(r \o <<a[i]>>)))

DivModOf(a, b) ==
    IF Fits(a) /\ Fits(b)
    THEN [q |-> Wide(NarrowOf(a) \div NarrowOf(b)), r |-> Wide(NarrowOf(a) % NarrowOf(b))]
    ELSE DivFrom(a, b, 1, <<>>, <<>>)

\* The quotient q and the remainder r of a by b, for b > 0.
DivMod(a, b) == Value2(DivModOf, a, b)

\* a / b truncated, for b > 0
Quot(a, b) == DivMod(a, b).q

\* 2^64 and 2^63.
TwoTo64 == Times(Times(Wide(65536), Wide(65536)), Times(Wide(65536), Wide(65536)))
TwoTo63 == Quot(TwoTo64, <<2>>)

\* math.MaxInt64 = 2^63 - 1 = 9223372036854775807.
MaxInt64 == Minus(TwoTo63, <<1>>)

\* The largest uint64, 2^64 - 1.
MaxUint64 == Minus(TwoTo64, <<1>>)

Uint64Of(a) == IF LessOf(a, TwoTo64) THEN a ELSE DivModOf(a, TwoTo64).r

\* A uint64 result: the value modulo 2^64.
Uint64(a) == Value1(Uint64Of, a)

\* A signed 64-bit value: its sign and its magnitude (zero is not negative).
Signed(neg, mag) == [neg |-> neg, mag |-> mag]

Int64Of(u) == IF LessOf(u, TwoTo63) THEN Signed(FALSE, u) ELSE Signed(TRUE, Minus(TwoTo64, u))

\* The conversion int64(u) of a uint64: the same 64 bits in two's complement.
Int64(u) == Value1(Int64Of, u)

\* Below zero the 64 bits are those of a + 2^64 - e, which int64 reads as
\* -(e - a): for a small e that is worked out as it stands.
Int64MinusOf(a, e) ==
    IF LessOf(a, e) /\ Fits(e)
    THEN Signed(TRUE, Minus(e, a))
    ELSE Int64(IF LessOf(a, e) THEN Minus(Plus(a, TwoTo64), e) ELSE Minus(a, e))

\* The int64 difference a - e of an int64 with the bits of the uint64 a and an
\* int64 e >= 0, wrapping around.
Int64Minus(a, e) == Value2(Int64MinusOf, a, e)

\* ------------------------------------------------------------------- pacer

\* time.Second.Nanoseconds()
Nanoseconds == Wide(Second)

\* The pacing interval of a run whose Qps is at most a second's nanoseconds:
\* time.Second.Nanoseconds() / Qps, truncated.
Interval(qps) == Second \div qps

\* uint64(time.Second.Nanoseconds() / int64(r.args.Qps)).  The division
\* panics when Qps is 0.  int64 of a Qps of 2^63 and more is negative, the
\* quotient (truncated towards zero) is then zero or negative, and uint64 of a
\* negative quotient -q is 2^64 - q.
interval(qps) ==
    IF qps = <<>>
    THEN [panic |-> TRUE, value |-> <<>>]
    ELSE IF Less(qps, TwoTo63)
    THEN [panic |-> FALSE, value |-> Quot(Nanoseconds, qps)]
    ELSE [panic |-> FALSE, value |-> Uint64(Minus(TwoTo64, Quot(Nanoseconds, Minus(TwoTo64, qps))))]

\* The intervals of the Qps of the runs.
RunIntervals == {Wide(Interval(q)) : q \in QpsSet}

\* math.MaxInt64 / interval for the intervals of the runs, worked out once.
Limits == [iv \in RunIntervals |-> Quot(MaxInt64, iv)]

\* math.MaxInt64 / interval, for an interval that is not zero.
limit(iv) == IF iv \in RunIntervals THEN Limits[iv] ELSE Quot(MaxInt64, iv)

\* What pace returns: (wait, stop), or a run-time panic out of it.
PaceOut(delta, stop, crash) == [wait |-> delta, stop |-> stop, crash |-> crash]

\* return 0, false
SendNow == PaceOut(Signed(FALSE, <<>>), FALSE, FALSE)

\* pace from its interval on: math.MaxInt64/interval panics when interval is
\* 0; the guard; delta is time.Duration of the uint64 product (requests + 1) *
\* interval; the result is the int64 difference delta - elapsed.
paceWaitOf(iv, elapsed, requests) ==
    IF iv.panic \/ iv.value = <<>>
    THEN PaceOut(Signed(FALSE, <<>>), FALSE, TRUE)
    ELSE IF Less(limit(iv.value), requests)
    THEN PaceOut(Signed(FALSE, <<>>), TRUE, FALSE)
    ELSE PaceOut(Int64Minus(Uint64(Times(Uint64(Plus(requests, <<1>>)), iv.value)), elapsed),
                 FALSE, FALSE)

paceWait(iv, elapsed, requests) == Value1(LAMBDA x : paceWaitOf(x, elapsed, requests), iv)

\* paceWait with delta = requests * interval.
paceWaitNoFirstIntervalOf(iv, elapsed, requests) ==
    IF iv.panic \/ iv.value = <<>>
    THEN PaceOut(Signed(FALSE, <<>>), FALSE, TRUE)
    ELSE IF Less(limit(iv.value), requests)
    THEN PaceOut(Signed(FALSE, <<>>), TRUE, FALSE)
    ELSE PaceOut(Int64Minus(Uint64(Times(requests, iv.value)), elapsed), FALSE, FALSE)

paceWaitNoFirstInterval(iv, elapsed, requests) ==
    Value1(LAMBDA x : paceWaitNoFirstIntervalOf(x, elapsed, requests), iv)

\* pace aiming at requests * interval: the first tick is due at time zero.
paceNoFirstInterval(qps, elapsed, requests) ==
    IF Less(requests, Uint64(Times(qps, Quot(elapsed, Nanoseconds))))
    THEN SendNow
    ELSE paceWaitNoFirstInterval(interval(qps), elapsed, requests)

\* pace counting a second that has only begun among the elapsed seconds.
paceBegunSecond(qps, elapsed, requests) ==
    IF Less(requests, Uint64(Times(qps, Quot(Plus(elapsed, Minus(Nanoseconds, <<1>>)),
                                             Nanoseconds))))
    THEN SendNow
    ELSE paceWait(interval(qps), elapsed, requests)

\* pace(elapsed, requests) -> (wait, stop), for a Runner with args.Qps = qps
\* (a uint64), elapsed an int64 that is not negative and requests a uint64:
\* expectedRequests is the uint64 product Qps * uint64(elapsed / time.Second).
pace(qps, elapsed, requests) ==
    IF Less(requests, Uint64(Times(qps, Quot(elapsed, Nanoseconds))))
    THEN SendNow
    ELSE paceWait(interval(qps), elapsed, requests)

\* The request counts tried with one Qps: small ones, the largest uint64, and
\* the ones around the limit MaxInt64 / interval of the overflow guard.
PaceRequests(qps) ==
    {Wide(n) : n \in 0..MaxSmallRequests} \cup {MaxUint64}
    \cup (IF interval(qps).panic \/ interval(qps).value = <<>>
          THEN {}
          ELSE LET most == limit(interval(qps).value) IN
               {most, Plus(most, <<1>>)}
               \cup (IF most = <<>> THEN {} ELSE {Minus(most, <<1>>)}))

\* The Qps of the calls of pace looked at on their own: zero, small ones, the
\* default of the command line, a second's nanoseconds (interval 1) and more
\* (interval 0), and the ones int64 of which is negative.
PaceQps ==
    {Wide(q) : q \in {0, 1, 2, 3, 7, 100, Second, Second + 1, 2 * Second}}
    \cup {TwoTo63, Minus(TwoTo64, Plus(Nanoseconds, <<1>>)), Minus(TwoTo64, Nanoseconds),
          Minus(TwoTo64, <<7>>), MaxUint64}

\* Their elapsed times: from zero to the largest time.Duration.
PaceElapsed ==
    {Wide(e) : e \in {0, 1, 142857142, 333333333, Second \div 2, Second - 1, Second,
                      Second + 1, 2 * Second}}
    \cup {Times(Nanoseconds, Wide(Second)), Times(Nanoseconds, Quot(MaxInt64, Nanoseconds)),
          MaxInt64}

\* ----------------------------------------------------------------- results

\* var result Result: the zero value (Latency and Timestamp are not modelled).
ZeroResult == [Seq |-> 0, Code |-> 0, Error |-> "", Success |-> FALSE]

\* What a request can come to: http.NewRequest fails, r.client.Do fails, or
\* the server answers with a status code.
BuildFailure == [kind |-> "build", code |-> 0]
TransportFailure == [kind |-> "transport", code |-> 0]
Response(code) == [kind |-> "response", code |-> code]

\* res.Status: the code and its text.
Status(code) ==
    CASE code = 199 -> "199 "
      [] code = 200 -> "200 OK"
      [] code = 399 -> "399 "
      [] code = 404 -> "404 Not Found"
      [] OTHER -> "status"

\* resultOf with no error text for a transport failure.
resultOfNoTransportError(result, o) ==
    IF o.kind = "build"
    THEN [result EXCEPT !.Error = "net/http: invalid method"]
    ELSE IF o.kind = "transport"
    THEN result
    ELSE [result EXCEPT !.Code = o.code,
                        !.Error = IF o.code < 200 \/ o.code >= 400
                                  THEN Status(o.code) ELSE ""]

\* sendRequest after the sequence number: the Result of a request that came to
\* o.  err.Error() is never empty; Success is assigned nowhere.
resultOf(result, o) ==
    IF o.kind = "build"
    THEN [result EXCEPT !.Error = "net/http: invalid method"]
    ELSE IF o.kind = "transport"
    THEN [result EXCEPT !.Error = "connection refused"]
    ELSE [result EXCEPT !.Code = o.code,
                        !.Error = IF o.code < 200 \/ o.code >= 400
                                  THEN Status(o.code) ELSE ""]

\* ------------------------------------------------------------------- state

WorkerIds == 1..Len(wpc)

\* A worker parked in the receive of `for range ticks`.
Parked(w) == wpc[w] = "recv"

NoneParked == \A w \in WorkerIds : ~Parked(w)

StopSet == stopCloses > 0

\* The ways Run returns: createWriter failed, writeResult failed, a signal
\* found the runner stopped, the summary was printed.
RunEnded == {"openFailed", "writeFailed", "forced", "returned"}

\* The process has died of a panic: at once when a goroutine panics with no
\* deferred function to run, and when the deferred function of the dispatcher
\* has returned after a panic out of pace.
Crashed == panicked \/ (exitWhy = "panic" /\ dpc = "done")

\* A panic ends the process, and so does the return of Run (main returns or
\* exits after it): no goroutine moves after either.
Running == ~Crashed /\ rpc \notin RunEnded

DispAt(pc) == Running /\ dpc = pc

WorkerAt(w, pcs) == Running /\ wpc[w] \in pcs

\* A run of finite duration; the history variables are kept for these runs.
Timed == args.Duration > 0

\* An unbounded run is cut after MaxTicks ticks: no later tick is accepted.
TickAllowed == args.Duration > 0 \/ count < MaxTicks

\* The LoadTestArgs tried.  MaxWorkers is read only when AutoScale is set; without
\* AutoScale it is left at its zero value, as the tests leave it.
ArgsSet ==
    {a \in [Duration : DurationSet, Qps : QpsSet, Workers : WorkersSet,
            MaxWorkers : 0..MaxPool, AutoScale : BOOLEAN] :
        a.AutoScale <=> a.MaxWorkers > 0}

\* The LoadTestArgs of the runs that look at Stop alone: one autoscaling run of
\* each duration.
ArgsStop ==
    {a \in ArgsSet : a.Qps = 3 /\ a.Workers = 1 /\ a.MaxWorkers = 2}

\* The LoadTestArgs of the runs whose progress is looked at: an autoscaling run
\* that starts with MaxWorkers workers or more never takes the autoscaling
\* select (workers < MaxWorkers is false from the start) and is, step for step,
\* the run with the same Workers and no AutoScale, which stands for it.
ArgsFair ==
    {a \in ArgsSet : a.AutoScale => a.Workers < a.MaxWorkers}

\* No call of pace on its own is looked at.
NoPace == [qps |-> <<1>>, elapsed |-> <<>>, requests |-> <<>>, done |-> FALSE, out |-> SendNow]

\* NewRunner and the start of StartTest: the channels are open, the initial
\* workers and the dispatcher are started, no Stop call has begun.
InitWith(argSet, targets, externals, paceCalls, rpcs) ==
    /\ args \in argSet
    /\ target \in targets
    /\ now = 0
    /\ dpc = "top"
    /\ workers = args.Workers
    /\ count = 0
    /\ wait = 0
    /\ exitWhy = "none"
    /\ wpc = [i \in 1..args.Workers |-> "loop"]
    /\ wres = [i \in 1..args.Workers |-> ZeroResult]
    /\ wg = args.Workers
    /\ seq = 0
    /\ seqmu = 0
    /\ ticksCloses = 0
    /\ resultsCloses = 0
    /\ stopCloses = 0
    /\ stopOnce = FALSE
    /\ panicked = FALSE
    /\ spc = [c \in {"d"} \cup externals |-> "idle"]
    /\ sret = [c \in {"d"} \cup externals |-> "none"]
    /\ received = <<>>
    /\ cdone = FALSE
    /\ rpc \in rpcs
    /\ sigq = 0
    /\ sigs = 0
    /\ taken = 0
    /\ late = FALSE
    /\ waited = FALSE
    /\ paced \in paceCalls

Init == InitWith(ArgsSet, {{Response(200)}}, Externals, {NoPace}, {"none"})

InitFair == InitWith(ArgsFair, {{Response(200)}}, Externals, {NoPace}, {"none"})

InitStop == InitWith(ArgsStop, {{Response(200)}}, ExternalsStop, {NoPace}, {"none"})

\* The targets tried for the Results: a method or URL that http.NewRequest
\* rejects, a server that cannot always be reached, one that answers with
\* status codes on both sides of the success range.
Targets ==
    {{BuildFailure}, {TransportFailure, Response(200)}, {Response(399), Response(404)},
     {Response(199), Response(200)}}

\* The runs that look at the Results: one autoscaling run of each duration
\* against each target.
InitReq == InitWith(ArgsStop, Targets, Externals, {NoPace}, {"none"})

\* The calls of pace looked at on their own.
PaceInputs ==
    UNION {{[qps |-> q, elapsed |-> e, requests |-> r, done |-> FALSE, out |-> SendNow] :
               e \in PaceElapsed, r \in PaceRequests(q)} : q \in PaceQps}

\* The runs under Run: Run has called StartTest and is about to open its
\* writer; its Stop calls are the caller "run".
InitRun == InitWith(ArgsStop, {{Response(200)}}, {"run"}, {NoPace}, {"open"})

\* A runner that has not started, and one call of pace to make.
InitPace == InitWith({a \in ArgsStop : a.Duration = 0}, {{Response(200)}}, {}, PaceInputs, {"none"})

\* The runs under Run with a Qps above a second's nanoseconds, for which pace
\* panics.
InitHighQps ==
    InitWith({[a EXCEPT !.Qps = 2 * Second] : a \in ArgsStop}, {{Response(200)}}, {"run"},
             {NoPace}, {"open"})

\* The Stop callers outside the runner, in this run.
ExternalCallers == DOMAIN spc \ {"d"}

\* ------------------------------------------------------------ Runner.Stop

\* The select of Stop: a closed stopch answers false, else the call goes on to the Once.
StopSelect(c) ==
    /\ spc[c] = "idle"
    /\ IF StopSet
       THEN /\ spc' = [spc EXCEPT ![c] = "ret"]
            /\ sret' = [sret EXCEPT ![c] = "false"]
       ELSE /\ spc' = [spc EXCEPT ![c] = "once"]
            /\ sret' = sret
    /\ UNCHANGED <<stopCloses, stopOnce, panicked>>

\* StopOnceDo without the Once: every caller that passed the select closes stopch.
StopOnceDoNoOnce(c) ==
    /\ spc[c] = "once"
    /\ stopOnce' = TRUE
    /\ stopCloses' = stopCloses + 1
    /\ panicked' = (panicked \/ StopSet)
    /\ spc' = [spc EXCEPT ![c] = "ret"]
    /\ sret' = [sret EXCEPT ![c] = "true"]

\* r.stopOnce.Do(func() { close(r.stopch) }); return true.  Closing a closed
\* channel panics.
StopOnceDo(c) ==
    /\ spc[c] = "once"
    /\ IF stopOnce
       THEN UNCHANGED <<stopOnce, stopCloses, panicked>>
       ELSE /\ stopOnce' = TRUE
            /\ stopCloses' = stopCloses + 1
            /\ panicked' = (panicked \/ StopSet)
    /\ spc' = [spc EXCEPT ![c] = "ret"]
    /\ sret' = [sret EXCEPT ![c] = "true"]

\* One step of a Stop call.
Stop(c) == StopSelect(c) \/ StopOnceDo(c)

\* A goroutine outside the runner calls Stop.
ExternalStop(c) ==
    /\ Running
    /\ Stop(c)
    /\ UNCHANGED <<confVars, now, wait, dispVars, workerVars, chanVars, sinkVars, histVars>>

\* -------------------------------------------------- the dispatcher goroutine

\* The duration check at the top of the loop.
DurationExpired(elapsed) == args.Duration > 0 /\ elapsed > args.Duration

\* CanScale without the MaxWorkers test.
CanScaleNoMax == args.AutoScale

\* The autoscaling condition guarding the non-blocking select.
CanScale == args.AutoScale /\ workers < args.MaxWorkers

\* What the dispatcher does with one reading elapsed of the clock and what
\* pace returned for it: return, or go on to time.Sleep(wait).  A panic out of
\* pace runs the deferred function (the shutdown from close(ticks) on) before
\* it ends the process.  A run is cut before a sleep that would end after
\* Horizon.
TopWith(elapsed, p) ==
    /\ late' = (late \/ (/\ Timed
                         /\ Interval(args.Qps) > 0
                         /\ elapsed \div Interval(args.Qps) >= count + 1))
    /\ IF DurationExpired(elapsed)
       THEN /\ dpc' = "closeTicks"
            /\ exitWhy' = "duration"
            /\ wait' = 0
       ELSE IF p.crash
       THEN /\ dpc' = "closeTicks"
            /\ exitWhy' = "panic"
            /\ wait' = 0
       ELSE IF p.stop
       THEN /\ dpc' = "closeTicks"
            /\ exitWhy' = "overflow"
            /\ wait' = 0
       ELSE /\ \/ p.wait.neg
               \/ p.wait.mag = <<>>
               \/ ~Less(Wide(Horizon), Plus(Wide(elapsed), p.wait.mag))
            /\ dpc' = "sleep"
            /\ exitWhy' = exitWhy
            /\ wait' = IF p.wait.neg THEN 0 ELSE Narrow(p.wait.mag)

\* One pass of the loop up to the sleep: read the clock (some time after the
\* last statement ran, not the same on every pass: time.Since never returns
\* the instant a sleep was due to end), check the duration, and pace.
Top ==
    /\ DispAt("top")
    /\ \E j \in Jitters :
           /\ now' = now + j
           /\ \E p \in {pace(Wide(args.Qps), Wide(now'), Wide(count))} : TopWith(now', p)
    /\ UNCHANGED <<confVars, workers, count, workerVars, chanVars, stopVars, panicked,
                   sinkVars, waited, paced>>

\* time.Sleep(wait) returns, with the clock wait later (at once when wait is
\* zero or negative), and the dispatcher comes to its selects: with a worker in
\* its receive, or with none.
Sleep ==
    /\ DispAt("sleep")
    /\ now' = now + wait
    /\ wait' = 0
    /\ dpc' = IF CanScale THEN "probe" ELSE "send"
    /\ waited' = (waited \/ (Timed /\ NoneParked))
    /\ UNCHANGED <<confVars, workers, count, exitWhy, workerVars, chanVars, stopVars,
                   panicked, sinkVars, late, paced>>

\* TickTo without count++.
TickToNoCount(w) ==
    /\ Parked(w)
    /\ TickAllowed
    /\ wpc' = [wpc EXCEPT ![w] = "lock"]
    /\ dpc' = "top"
    /\ UNCHANGED <<confVars, now, wait, workers, count, exitWhy, wres, wg, seq, seqmu, chanVars,
                   stopVars, panicked, sinkVars, histVars>>

\* ticks <- struct{}{} meets worker w's receive; count++.
TickTo(w) ==
    /\ Parked(w)
    /\ TickAllowed
    /\ wpc' = [wpc EXCEPT ![w] = "lock"]
    /\ count' = count + 1
    /\ dpc' = "top"
    /\ UNCHANGED <<confVars, now, wait, workers, exitWhy, wres, wg, seq, seqmu, chanVars,
                   stopVars, panicked, sinkVars, histVars>>

\* case <-r.stopch: return.
SeeStop ==
    /\ StopSet
    /\ dpc' = "closeTicks"
    /\ exitWhy' = "stop"
    /\ UNCHANGED <<confVars, now, wait, workers, count, workerVars, chanVars, stopVars,
                   panicked, sinkVars, histVars>>

\* The non-blocking select: the send case.
ProbeSend(w) == DispAt("probe") /\ TickTo(w)

\* The non-blocking select: the stop case.
ProbeStop == DispAt("probe") /\ SeeStop

\* ProbeSpawn taken also when a worker is ready to receive.
ProbeSpawnAnyway ==
    /\ DispAt("probe")
    /\ ~StopSet
    /\ workers' = workers + 1
    /\ wg' = wg + 1
    /\ wpc' = Append(wpc, "loop")
    /\ wres' = Append(wres, ZeroResult)
    /\ dpc' = "send"
    /\ UNCHANGED <<confVars, now, wait, count, exitWhy, seq, seqmu, chanVars, stopVars,
                   panicked, sinkVars, histVars>>

\* The non-blocking select: default. No case is ready: start one more worker
\* and go on to the blocking select.
ProbeSpawn ==
    /\ DispAt("probe")
    /\ NoneParked
    /\ ~StopSet
    /\ workers' = workers + 1
    /\ wg' = wg + 1
    /\ wpc' = Append(wpc, "loop")
    /\ wres' = Append(wres, ZeroResult)
    /\ dpc' = "send"
    /\ UNCHANGED <<confVars, now, wait, count, exitWhy, seq, seqmu, chanVars, stopVars,
                   panicked, sinkVars, histVars>>

\* The blocking select: the send case.
SendTick(w) == DispAt("send") /\ TickTo(w)

\* The blocking select without its stop case.
SendStopMissing == FALSE /\ UNCHANGED vars

\* The blocking select: the stop case.
SendStop == DispAt("send") /\ SeeStop

\* The deferred function: close(ticks).
CloseTicks ==
    /\ DispAt("closeTicks")
    /\ ticksCloses' = ticksCloses + 1
    /\ panicked' = (panicked \/ ticksCloses > 0)
    /\ dpc' = "wait"
    /\ UNCHANGED <<confVars, now, wait, workers, count, exitWhy, workerVars, resultsCloses,
                   stopVars, sinkVars, histVars>>

\* WaitWorkers without the wait: the deferred function goes on at once.
WaitWorkersNoWait ==
    /\ DispAt("wait")
    /\ dpc' = "closeResults"
    /\ UNCHANGED <<confVars, now, wait, workers, count, exitWhy, workerVars, chanVars,
                   stopVars, panicked, sinkVars, histVars>>

\* The deferred function: wg.Wait() returns when the counter is zero.
WaitWorkers ==
    /\ DispAt("wait")
    /\ wg = 0
    /\ dpc' = "closeResults"
    /\ UNCHANGED <<confVars, now, wait, workers, count, exitWhy, workerVars, chanVars,
                   stopVars, panicked, sinkVars, histVars>>

\* The deferred function: close(results).
CloseResults ==
    /\ DispAt("closeResults")
    /\ resultsCloses' = resultsCloses + 1
    /\ panicked' = (panicked \/ resultsCloses > 0)
    /\ dpc' = "stop"
    /\ UNCHANGED <<confVars, now, wait, workers, count, exitWhy, workerVars, ticksCloses,
                   stopVars, sinkVars, histVars>>

\* The deferred function: r.Stop().
DispatcherStop ==
    /\ DispAt("stop")
    /\ Stop("d")
    /\ dpc' = IF spc'["d"] = "ret" THEN "done" ELSE "stop"
    /\ UNCHANGED <<confVars, now, wait, workers, count, exitWhy, workerVars, chanVars,
                   sinkVars, histVars>>

\* ------------------------------------------------------ the worker goroutines

\* `for range ticks`: the worker blocks in the receive.
WorkerPark(w) ==
    /\ WorkerAt(w, {"loop"})
    /\ ticksCloses = 0
    /\ wpc' = [wpc EXCEPT ![w] = "recv"]
    /\ UNCHANGED <<confVars, now, wait, dispVars, wres, wg, seq, seqmu, chanVars, stopVars,
                   panicked, sinkVars, histVars>>

\* WorkerExit without wg.Done().
WorkerExitNoDone(w) ==
    /\ WorkerAt(w, {"loop", "recv"})
    /\ ticksCloses > 0
    /\ wpc' = [wpc EXCEPT ![w] = "exited"]
    /\ UNCHANGED <<confVars, now, wait, dispVars, wres, wg, seq, seqmu, chanVars, stopVars,
                   panicked, sinkVars, histVars>>

\* The receive reports the channel closed: the loop ends and wg.Done() runs.
WorkerExit(w) ==
    /\ WorkerAt(w, {"loop", "recv"})
    /\ ticksCloses > 0
    /\ wpc' = [wpc EXCEPT ![w] = "exited"]
    /\ wg' = wg - 1
    /\ UNCHANGED <<confVars, now, wait, dispVars, wres, seq, seqmu, chanVars, stopVars,
                   panicked, sinkVars, histVars>>

\* SeqLock without the mutex: the read of lt.seq does not wait for the holder.
SeqLockNoMutex(w) ==
    /\ WorkerAt(w, {"lock"})
    /\ seqmu' = w
    /\ wres' = [wres EXCEPT ![w] = [ZeroResult EXCEPT !.Seq = seq]]
    /\ wpc' = [wpc EXCEPT ![w] = "inc"]
    /\ UNCHANGED <<confVars, now, wait, dispVars, wg, seq, chanVars, stopVars,
                   panicked, sinkVars, histVars>>

\* sendRequest: lt.seqmu.Lock(); result.Seq = lt.seq.
SeqLock(w) ==
    /\ WorkerAt(w, {"lock"})
    /\ seqmu = 0
    /\ seqmu' = w
    /\ wres' = [wres EXCEPT ![w] = [ZeroResult EXCEPT !.Seq = seq]]
    /\ wpc' = [wpc EXCEPT ![w] = "inc"]
    /\ UNCHANGED <<confVars, now, wait, dispVars, wg, seq, chanVars, stopVars,
                   panicked, sinkVars, histVars>>

\* SeqInc without the increment.
SeqIncForgotten(w) ==
    /\ WorkerAt(w, {"inc"})
    /\ seqmu' = 0
    /\ wpc' = [wpc EXCEPT ![w] = "http"]
    /\ UNCHANGED <<confVars, now, wait, dispVars, wres, wg, seq, chanVars, stopVars,
                   panicked, sinkVars, histVars>>

\* sendRequest: lt.seq++; lt.seqmu.Unlock().
SeqInc(w) ==
    /\ WorkerAt(w, {"inc"})
    /\ seq' = seq + 1
    /\ seqmu' = 0
    /\ wpc' = [wpc EXCEPT ![w] = "http"]
    /\ UNCHANGED <<confVars, now, wait, dispVars, wres, wg, chanVars, stopVars,
                   panicked, sinkVars, histVars>>

\* sendRequest: the request is built and done, and the Result returned.
HttpDone(w) ==
    /\ WorkerAt(w, {"http"})
    /\ \E o \in target : wres' = [wres EXCEPT ![w] = resultOf(wres[w], o)]
    /\ wpc' = [wpc EXCEPT ![w] = "push"]
    /\ UNCHANGED <<confVars, now, wait, dispVars, wg, seq, seqmu, chanVars, stopVars,
                   panicked, sinkVars, histVars>>

\* The consumer is in its receive from results.
Receiving == ~cdone /\ rpc \in {"none", "loop"}

\* results <- result: meets the consumer's receive, and the worker is left with
\* no Result (sendRequest makes a new one); a send on a closed channel panics.
\* In Run the consumer goes on to append and write the Result.
Push(w) ==
    /\ WorkerAt(w, {"push"})
    /\ IF resultsCloses > 0
       THEN /\ panicked' = TRUE
            /\ UNCHANGED <<wpc, wres, received, rpc>>
       ELSE /\ Receiving
            /\ received' = Append(received, wres[w])
            /\ wres' = [wres EXCEPT ![w] = ZeroResult]
            /\ wpc' = [wpc EXCEPT ![w] = "loop"]
            /\ rpc' = IF rpc = "loop" THEN "write" ELSE rpc
            /\ panicked' = panicked
    /\ UNCHANGED <<confVars, now, wait, dispVars, wg, seq, seqmu, chanVars, stopVars,
                   cdone, sigVars, histVars>>

\* ---------------------------------------------------------------- consumer

\* The consumer's receive reports the results channel closed; Run goes on to
\* its summary.
SinkClosed ==
    /\ Running
    /\ resultsCloses > 0
    /\ Receiving
    /\ cdone' = TRUE
    /\ rpc' = IF rpc = "loop" THEN "summary" ELSE rpc
    /\ UNCHANGED <<confVars, now, wait, dispVars, workerVars, chanVars, stopVars, panicked,
                   received, sigVars, histVars>>

\* --------------------------------------------------------------------- Run

\* printResultSummary: the counts, and the panic of the integer division
\* totalLatency / len(results) when there is no Result.
printResultSummary(results) ==
    LET ok == {i \in 1..Len(results) : results[i].Code >= 200 /\ results[i].Code < 400} IN
    [success |-> Cardinality(ok),
     failure |-> Len(results) - Cardinality(ok),
     crash |-> Len(results) = 0]

\* createWriter(r.args.OutputFile), after StartTest has returned: the file
\* opens, or Run returns the error.
RunOpen ==
    /\ Running
    /\ rpc = "open"
    /\ \E opened \in BOOLEAN : rpc' = IF opened THEN "loop" ELSE "openFailed"
    /\ UNCHANGED <<confVars, now, wait, dispVars, workerVars, chanVars, stopVars, panicked,
                   received, cdone, sigVars, histVars>>

\* resultList = append(resultList, result); r.writeResult(w, result): the
\* write succeeds, or Run returns the error.
RunWrite ==
    /\ Running
    /\ rpc = "write"
    /\ \E written \in BOOLEAN : rpc' = IF written THEN "loop" ELSE "writeFailed"
    /\ UNCHANGED <<confVars, now, wait, dispVars, workerVars, chanVars, stopVars, panicked,
                   received, cdone, sigVars, histVars>>

\* A signal is sent to the process: signal.Notify puts it in sig unless the
\* buffer is full.
Signal ==
    /\ Running
    /\ rpc # "none"
    /\ sigs < MaxSignals
    /\ sigs' = sigs + 1
    /\ sigq' = 1
    /\ UNCHANGED <<confVars, now, wait, dispVars, workerVars, chanVars, stopVars, panicked,
                   received, cdone, rpc, taken, histVars>>

\* case <-sig: Run goes on to call r.Stop().
RunSig ==
    /\ Running
    /\ rpc = "loop"
    /\ sigq = 1
    /\ sigq' = 0
    /\ taken' = taken + 1
    /\ rpc' = "stop"
    /\ spc' = [spc EXCEPT !["run"] = "idle"]
    /\ sret' = [sret EXCEPT !["run"] = "none"]
    /\ UNCHANGED <<confVars, now, wait, dispVars, workerVars, chanVars, stopCloses, stopOnce,
                   panicked, received, cdone, sigs, histVars>>

\* stopSent := r.Stop(); if !stopSent { return nil }.
RunStop ==
    /\ Running
    /\ rpc = "stop"
    /\ Stop("run")
    /\ rpc' = IF spc'["run"] # "ret" THEN "stop"
              ELSE IF sret'["run"] = "false" THEN "forced" ELSE "loop"
    /\ UNCHANGED <<confVars, now, wait, dispVars, workerVars, chanVars, received, cdone,
                   sigVars, histVars>>

\* printResultSummary(resultList); return nil.
RunSummary ==
    /\ Running
    /\ rpc = "summary"
    /\ IF printResultSummary(received).crash
       THEN panicked' = TRUE /\ rpc' = rpc
       ELSE panicked' = panicked /\ rpc' = "returned"
    /\ UNCHANGED <<confVars, now, wait, dispVars, workerVars, chanVars, stopVars,
                   received, cdone, sigVars, histVars>>

\* ------------------------------------------------------------------- clock

\* Time passes beyond the pacing sleeps: a goroutine is scheduled late, a request
\* is slow.  Only the dispatcher reads the clock, at the top of its loop, so a
\* delay anywhere is the same as one just before that read, or as one while the
\* dispatcher is blocked in the send with no worker ready.
Advance ==
    /\ Running
    /\ dpc = "top" \/ (dpc = "send" /\ NoneParked)
    /\ now <= (MaxQuanta - 1) * Quantum
    /\ now' = now + Quantum
    /\ UNCHANGED <<confVars, wait, dispVars, workerVars, chanVars, stopVars, panicked,
                   sinkVars, histVars>>

\* ------------------------------------------------------- pace on its own

\* One call of pace, looked at on its own.
PaceCall ==
    /\ ~paced.done
    /\ paced' = [paced EXCEPT !.done = TRUE,
                              !.out = pace(paced.qps, paced.elapsed, paced.requests)]
    /\ UNCHANGED <<confVars, now, wait, dispVars, workerVars, chanVars, stopVars, panicked,
                   sinkVars, late, waited>>

NextPace == PaceCall

SpecPace == InitPace /\ [][NextPace]_vars

\* -------------------------------------------------------------------- Next

Worker(w) ==
    \/ WorkerPark(w)
    \/ WorkerExit(w)
    \/ SeqLock(w)
    \/ SeqInc(w)
    \/ HttpDone(w)
    \/ Push(w)

Next ==
    \/ Top
    \/ Sleep
    \/ \E w \in WorkerIds : ProbeSend(w)
    \/ ProbeStop
    \/ ProbeSpawn
    \/ \E w \in WorkerIds : SendTick(w)
    \/ SendStop
    \/ CloseTicks
    \/ WaitWorkers
    \/ CloseResults
    \/ DispatcherStop
    \/ \E w \in WorkerIds : WorkerPark(w)
    \/ \E w \in WorkerIds : WorkerExit(w)
    \/ \E w \in WorkerIds : SeqLock(w)
    \/ \E w \in WorkerIds : SeqInc(w)
    \/ \E w \in WorkerIds : HttpDone(w)
    \/ \E w \in WorkerIds : Push(w)
    \/ SinkClosed
    \/ \E c \in ExternalCallers : ExternalStop(c)
    \/ Advance

Spec == Init /\ [][Next]_vars

\* The runs that look at Stop alone: more concurrent callers, fewer arguments.
SpecStop == InitStop /\ [][Next]_vars

\* The steps of a run under Run: the runner's, Run's, and the signals.
NextRun ==
    \/ Top
    \/ Sleep
    \/ \E w \in WorkerIds : ProbeSend(w)
    \/ ProbeStop
    \/ ProbeSpawn
    \/ \E w \in WorkerIds : SendTick(w)
    \/ SendStop
    \/ CloseTicks
    \/ WaitWorkers
    \/ CloseResults
    \/ DispatcherStop
    \/ \E w \in WorkerIds : WorkerPark(w)
    \/ \E w \in WorkerIds : WorkerExit(w)
    \/ \E w \in WorkerIds : SeqLock(w)
    \/ \E w \in WorkerIds : SeqInc(w)
    \/ \E w \in WorkerIds : HttpDone(w)
    \/ \E w \in WorkerIds : Push(w)
    \/ SinkClosed
    \/ RunOpen
    \/ RunWrite
    \/ Signal
    \/ RunSig
    \/ RunStop
    \/ RunSummary
    \/ Advance

SpecRun == InitRun /\ [][NextRun]_vars

\* The runs under Run in which pace panics.
SpecHighQps == InitHighQps /\ [][NextRun]_vars

\* The runs that look at the Results: requests that fail and succeed.
SpecReq == InitReq /\ [][Next]_vars

\* The steps of the program itself: every step but the clock's and the external
\* Stop calls.
ProgramNext ==
    \/ Top
    \/ Sleep
    \/ \E w \in WorkerIds : ProbeSend(w)
    \/ ProbeStop
    \/ ProbeSpawn
    \/ \E w \in WorkerIds : SendTick(w)
    \/ SendStop
    \/ CloseTicks
    \/ WaitWorkers
    \/ CloseResults
    \/ DispatcherStop
    \/ \E w \in WorkerIds : Worker(w)
    \/ SinkClosed

\* Scheduling: a goroutine that can run keeps running (the Go scheduler starves
\* none), every request completes and the consumer keeps receiving; a select
\* with several ready cases picks among them at random, so a case that is ready
\* again and again is taken (strong fairness of the stop cases).
Fairness ==
    /\ \A w \in 1..Max(MaxPool, 2) : WF_vars(w \in WorkerIds /\ Worker(w))
    /\ WF_vars(Top \/ Sleep \/ ProbeSpawn \/ CloseTicks \/ WaitWorkers \/ CloseResults
               \/ DispatcherStop \/ SinkClosed)
    /\ WF_vars(\E w \in WorkerIds : ProbeSend(w) \/ SendTick(w))
    /\ SF_vars(ProbeStop \/ SendStop)

\* The runs of Spec under fair scheduling (of the runs that are step for step
\* the same, one).
FairSpec == InitFair /\ [][Next]_vars /\ Fairness

\* ================================================================== claims

\* The sequence numbers of the Results the consumer has received.
ReceivedSeqs == {received[i].Seq : i \in 1..Len(received)}

\* Workers that hold a tick they have not yet answered with a Result.
InFlight == {w \in WorkerIds : wpc[w] \in {"lock", "inc", "http", "push"}}

AllExited == \A w \in WorkerIds : wpc[w] = "exited"

\* The Stop calls that returned true.
ReturnedTrue == {c \in DOMAIN sret : sret[c] = "true"}

\* C1: once the sink is closed, the sequence numbers of the Results received
\* are exactly 0 .. total-1: none is missing and none comes twice.
C1_SeqsExact ==
    cdone => /\ ReceivedSeqs = 0..(Len(received) - 1)
             /\ Cardinality(ReceivedSeqs) = Len(received)

\* A closed run of two workers whose Results arrived out of order.
C1_Witness ==
    /\ cdone
    /\ Len(wpc) >= 2
    /\ Len(received) >= 3
    /\ \E i \in 1..(Len(received) - 1) : received[i].Seq > received[i + 1].Seq

\* C2: every tick handed off is held by exactly one worker until that worker has
\* pushed its one Result: the ticks handed off are the Results received plus the
\* workers in flight, so received <= ticks <= received + workers; and once the
\* sink is closed the Results received are as many as the dispatcher's count.
C2_TicksAndResults ==
    /\ count = Len(received) + Cardinality(InFlight)
    /\ Len(received) <= count
    /\ count <= Len(received) + Len(wpc)
    /\ resultsCloses > 0 => Len(received) = count

\* A closed run that delivered three Results, two of them in flight at once.
C2_Witness ==
    /\ cdone
    /\ count >= 3
    /\ Len(received) = count
    /\ \E i \in 1..(Len(received) - 1) : received[i].Seq > received[i + 1].Seq

\* C3: shutdown order.  A worker exits only after the tick channel is closed;
\* the sink is closed only after the tick channel is closed and every worker
\* spawned has exited; the dispatcher's Stop call begins only after the sink is
\* closed; each channel is closed once; nothing panics (no push after the close).
C3_ShutdownOrder ==
    /\ (\E w \in WorkerIds : wpc[w] = "exited") => ticksCloses = 1
    /\ resultsCloses > 0 => (ticksCloses = 1 /\ AllExited /\ wg = 0)
    /\ (spc["d"] # "idle" \/ dpc = "done") => resultsCloses = 1
    /\ dpc \in {"wait", "closeResults", "stop", "done"} => ticksCloses = 1
    /\ ticksCloses <= 1
    /\ resultsCloses <= 1
    /\ ~panicked

\* The dispatcher is done after a stop cut short a run that had autoscaled.
C3_Witness ==
    /\ dpc = "done"
    /\ exitWhy = "stop"
    /\ Len(wpc) > args.Workers
    /\ Len(received) >= 1

\* C4: Stop is idempotent.  stopch is closed at most once and nothing panics; a
\* call that has begun can always take its next step; and a call that begins
\* with the stop signal set returns false at once and changes nothing else.
C4_StopIdempotent ==
    /\ [](stopCloses <= 1 /\ ~panicked)
    /\ [](\A c \in ExternalCallers : spc[c] = "once" => ENABLED ExternalStop(c))
    /\ [](spc["d"] = "once" => ENABLED DispatcherStop)
    /\ [][\A c \in DOMAIN spc :
            (spc[c] = "idle" /\ spc'[c] # "idle" /\ StopSet)
                => /\ spc'[c] = "ret"
                   /\ sret'[c] = "false"
                   /\ UNCHANGED <<stopCloses, stopOnce, panicked>>]_vars

\* Two calls went through the Once and a third, begun later, was answered false.
C4_Witness ==
    /\ Cardinality(ReturnedTrue) = 2
    /\ \E c \in DOMAIN sret : sret[c] = "false"
    /\ stopCloses = 1

\* C5: of all the Stop calls on one Runner, at most one returns true, and once
\* the dispatcher's own call has returned exactly one has.
C5_ExactlyOneTrue ==
    /\ Cardinality(ReturnedTrue) <= 1
    /\ dpc = "done" => Cardinality(ReturnedTrue) = 1


\* No external caller has begun a Stop call.
NoExternalStop == \A c \in ExternalCallers : spc[c] = "idle"

\* Some worker exists or can be spawned to take a tick.
CanServe == args.Workers >= 1 \/ (args.AutoScale /\ args.MaxWorkers >= 1)

\* C6 as claimed, for every Workers >= 0, in the form a finite run refutes: in a
\* run of finite duration with no external stop, while the sink is open after
\* the duration has passed, the program can take a step towards closing it.
C6_Original ==
    (Timed /\ NoExternalStop /\ now > args.Duration /\ resultsCloses = 0)
        => ENABLED ProgramNext

\* C6, amended: in a run of finite duration that has a worker to take a tick
\* (Workers >= 1, or AutoScale with MaxWorkers >= 1), the dispatcher loop ends
\* and the consumer sees the sink closed.
C6_DurationEnds == (Timed /\ CanServe) ~> (exitWhy # "none" /\ cdone)

\* A run closed by the expiry of its duration after three Results.
C6_Witness ==
    /\ cdone
    /\ exitWhy = "duration"
    /\ now > args.Duration
    /\ NoExternalStop
    /\ Len(received) >= 3

\* C7: once the stop signal is set, the tick channel is closed, every worker
\* exits and the consumer sees the sink closed; and a worker exits only when the
\* tick channel is closed.
C7_StopDrains ==
    /\ StopSet ~> (ticksCloses = 1 /\ AllExited /\ cdone)
    /\ [][\A w \in WorkerIds :
            (wpc[w] # "exited" /\ wpc'[w] = "exited") => ticksCloses > 0]_vars

\* An unbounded run that a stop ended, drained and closed.
C7_Witness ==
    /\ ~Timed
    /\ exitWhy = "stop"
    /\ cdone
    /\ AllExited
    /\ Len(received) >= 1

\* The Results a run of finite duration delivers when every tick is on time.
FullIntervals == args.Duration \div Interval(args.Qps)

\* The loop iteration that read the clock last began at or after the scheduled
\* time (count + 1) x interval of its tick.  Once the dispatcher has returned
\* the clock is read no more: now is the elapsed time its last iteration saw.
Behind ==
    /\ Timed
    /\ Interval(args.Qps) > 0
    /\ now \div Interval(args.Qps) >= count + 1

C9_PoolGrowsToMax ==
    /\ [][workers' >= workers /\ Len(wpc') >= Len(wpc)]_vars
    /\ [](workers = Len(wpc))
    /\ [](args.Workers <= args.MaxWorkers => workers <= args.MaxWorkers)
    /\ [](~args.AutoScale => workers = args.Workers)

\* A pool that autoscaling grew from nothing to MaxWorkers = 2.
C9_Witness ==
    /\ args.Workers = 0
    /\ args.MaxWorkers = 2
    /\ workers = 2
    /\ Len(received) >= 1

\* The Results are received in strictly increasing order of Seq.
InSeqOrder ==
    \A i, j \in 1..Len(received) : i < j => received[i].Seq < received[j].Seq

\* C10 as claimed: for any number of workers the Results are received in strict
\* sequence order.
C10_Original == InSeqOrder

\* C10, amended: the Results received carry distinct sequence numbers; a Result
\* is received ahead of at most workers - 1 Results of smaller Seq; so with one
\* worker the Results are received in strict sequence order.
C10_OrderUpToPool ==
    /\ Cardinality(ReceivedSeqs) = Len(received)
    /\ \A i \in 1..Len(received) : received[i].Seq <= (i - 1) + Max(Len(wpc), 1) - 1
    /\ Len(wpc) <= 1 => InSeqOrder

\* One worker delivered three Results.
C10_Witness ==
    /\ Len(wpc) = 1
    /\ Len(received) >= 3
    /\ InSeqOrder

\* C12: for every Qps > 0, pace never panics, and whenever it computes a wait
\* (it is not behind and does not stop) the product (requests + 1) * interval
\* is within MaxInt64.
C12_GuardedPace ==
    (paced.done /\ paced.qps # <<>>) =>
        /\ ~paced.out.crash
        /\ (/\ ~paced.out.stop
            /\ ~Less(paced.requests, Times(paced.qps, Quot(paced.elapsed, Nanoseconds))))
               => ~Less(MaxInt64, Times(Plus(paced.requests, <<1>>),
                                        Quot(Nanoseconds, paced.qps)))

\* The difference a - b of two natural numbers, as a signed value.
Difference(a, b) ==
    IF Less(a, b) THEN Signed(TRUE, Minus(b, a)) ELSE Signed(FALSE, Minus(a, b))

\* The calls of C16: Qps in 1..10^9 and requests below the overflow limit
\* MaxInt64 / interval.
InReference ==
    /\ paced.qps # <<>>
    /\ ~Less(Nanoseconds, paced.qps)
    /\ Less(paced.requests, Quot(MaxInt64, Quot(Nanoseconds, paced.qps)))

\* C16: for Qps up to a second's nanoseconds and requests below the overflow
\* limit, pace returns (0, continue) when requests < Qps * floor(elapsed / 1s),
\* and else ((requests + 1) * floor(1s / Qps) - elapsed, continue).
C16_PaceReference ==
    (paced.done /\ InReference)
        => paced.out = IF Less(paced.requests, Times(paced.qps, Quot(paced.elapsed, Nanoseconds)))
                       THEN PaceOut(Signed(FALSE, <<>>), FALSE, FALSE)
                       ELSE PaceOut(Difference(Times(Plus(paced.requests, <<1>>),
                                                     Quot(Nanoseconds, paced.qps)),
                                               paced.elapsed),
                                    FALSE, FALSE)

\* A call that is not behind and returns a negative wait.
C16_Witness ==
    /\ paced.done
    /\ InReference
    /\ paced.qps = <<3>>
    /\ Less(<<>>, paced.requests)
    /\ ~Less(paced.requests, Times(paced.qps, Quot(paced.elapsed, Nanoseconds)))
    /\ paced.out.wait.neg
    /\ ~paced.out.stop

\* C11: every Result received carries Success = TRUE exactly when its request
\* got a response with a status code in 200..399 and no error.
C11_SuccessDerived ==
    \A i \in 1..Len(received) :
        received[i].Success <=> (/\ received[i].Code >= 200
                                 /\ received[i].Code < 400
                                 /\ received[i].Error = "")

\* A target no request to which gets a response.
FailureOnly == \A o \in target : o.kind # "response"

\* C17: a request that fails to be built or sent gives one Result with status
\* code 0 and a non-empty error text (every Result with code 0 has an error text,
\* and against a target that only fails every Result has code 0); the tick count
\* stays the Results received plus the workers in flight; the step that
\* completes a request and the step that pushes its Result leave the dispatcher
\* where it was and panic nothing, and the push puts the worker back at the top
\* of its loop.
C17_FailureRecorded ==
    /\ [](\A i \in 1..Len(received) :
            /\ received[i].Code = 0 => received[i].Error # ""
            /\ FailureOnly => received[i].Code = 0)
    /\ [](count = Len(received) + Cardinality(InFlight))
    /\ [][\A w \in WorkerIds :
            /\ (wpc[w] = "http" /\ wpc'[w] # "http")
                   => /\ wpc'[w] = "push"
                      /\ dispVars' = dispVars
                      /\ panicked' = panicked
                      /\ wres'[w].Code = 0 => wres'[w].Error # ""
            /\ (wpc[w] = "push" /\ Len(received') > Len(received))
                   => /\ dispVars' = dispVars
                      /\ panicked' = panicked
                      /\ (wpc'[w] # "push" => wpc'[w] = "loop")]_vars

\* Against a target that only fails, the one worker of the pool has pushed a
\* failed Result and holds the next tick, and the dispatcher has not left its loop.
C17_Witness ==
    /\ FailureOnly
    /\ Len(wpc) = 1
    /\ Len(received) >= 1
    /\ received[1].Code = 0
    /\ received[1].Error # ""
    /\ wpc[1] \in {"lock", "inc", "http"}
    /\ exitWhy = "none"
    /\ ~panicked

\* C14: the dispatcher spawns a worker only from the non-blocking select, with
\* AutoScale on, workers below MaxWorkers and no worker ready to receive; it
\* spawns one and goes to the blocking select without pacing again and without
\* counting a tick.  The non-blocking select is entered only from the pacing
\* sleep, and the blocking select is left only by one handoff (count + 1, back to
\* the top of the loop) or by its stop case: so a cycle spawns at most one worker and
\* counts at most one tick.
C14_AutoscaleRule ==
    [][/\ workers' # workers
           => /\ workers' = workers + 1
              /\ Len(wpc') = Len(wpc) + 1
              /\ args.AutoScale
              /\ workers < args.MaxWorkers
              /\ NoneParked
              /\ dpc = "probe"
              /\ dpc' = "send"
              /\ count' = count
              /\ now' = now
       /\ count' # count
           => /\ count' = count + 1
              /\ dpc \in {"probe", "send"}
              /\ dpc' = "top"
              /\ workers' = workers
       /\ (dpc' = "probe" /\ dpc # "probe") => dpc = "sleep"
       /\ (dpc = "send" /\ dpc' # "send")
           => \/ dpc' = "top" /\ count' = count + 1
              \/ dpc' = "closeTicks" /\ StopSet /\ count' = count
       /\ (~args.AutoScale \/ workers >= args.MaxWorkers) => dpc' # "probe"]_vars

\* A cycle that found the one initial worker busy, spawned a second worker and
\* handed its tick to it: two ticks counted, both workers hold one.
C14_Witness ==
    /\ args.Workers = 1
    /\ workers = 2
    /\ count = 2
    /\ dpc = "top"
    /\ wpc[1] = "http"
    /\ wpc[2] = "lock"

\* C15: in a state where the stop signal is set no tick is handed off: the tick
\* count does not change and no worker leaves its receive with a tick.
C15_NoTickAfterStop ==
    [][StopSet => /\ count' = count
                  /\ \A w \in WorkerIds : Parked(w) => wpc'[w] \in {"recv", "exited"}]_vars

\* C18: at every moment the ticks handed off are at most floor(elapsed /
\* interval), interval = floor(1s / Qps): tick k (from 0) is never handed off
\* before (k + 1) * interval.  The clock of the model is the earliest time the
\* next handoff can happen at.
C18_RateCeiling == count <= now \div Interval(args.Qps)

\* A dispatcher that fell behind: an unbounded 3-per-second run was delayed by
\* a second, and its first two ticks were handed off straight after two
\* readings of the clock (no sleep leaves the clock at such a time), the second
\* read after the whole second with one tick sent: the behind branch.
C18_Witness ==
    /\ args.Qps = 3
    /\ now = Second + 2 * Jitter
    /\ count = 2
    /\ dpc = "top"

\* C13: in a Run whose createWriter call failed no worker was started, no tick
\* was handed off and no request was issued.
C13_OpenFailsBeforeStart ==
    rpc = "openFailed" => /\ Len(wpc) = 0
                          /\ count = 0
                          /\ seq = 0

\* C19: Run takes the forced-exit return only on a second signal: never when it
\* has received one signal only.
C19_FirstSignalGraceful == rpc = "forced" => taken >= 2

\* C20: a Run whose sink has closed does not panic, whatever the number of
\* Results it received.
C20_CleanReturn == cdone => ~panicked

====
